---------------------------- MODULE Spec2Model ----------------------------
(***************************************************************************)
(* A model of AAutomataDriver and CellProcessor (src/AutomataDriver.h,     *)
(* src/AutomataDriver.cpp): a toroidal cellular automaton whose cells are  *)
(* grouped into clusters, whose clusters are split over Divisions          *)
(* CellProcessor tasks, and whose generations are computed by a cascade of *)
(* those tasks (each started by the completion of the one before) and      *)
(* committed on the game thread by StepComplete.                           *)
(*                                                                         *)
(* Threads: the game thread (variable gt is its position) and the thread   *)
(* pool, which runs queued FAsyncTask<CellProcessor> tasks (taskPC[p] is   *)
(* the position of the thread running processor p).  Rendering (materials, *)
(* instance transforms, UpdateInstance) is left out: it writes none of the *)
(* state modelled here.                                                    *)
(***************************************************************************)
EXTENDS Integers, Sequences, FiniteSets, TLC

VARIABLES
    \* configuration (UPROPERTY fields, fixed after construction)
    XClusters, ZClusters, XCellsPerCluster, ZCellsPerCluster, Divisions,
    BirthString, SurviveString,
    \* AAutomataDriver fields
    BirthRules, SurviveRules,
    CurrentStates, NextStates,
    ChangedLastStep, ChangedThisStep,
    NeighborhoodChangedLastStep, NeighborhoodChangedThisStep,
    Neighborhoods, NeighborsOf,
    CellIDs,                 \* CellIDs[p]: the cell list of Processors[p]
    CurrentDataSlots, NextStepTime,
    CurrentProcess,
    \* FAsyncTask<CellProcessor> fields of Processors[p]
    QueuedPool, WorkNotFinishedCounter, DoneEvent,
    \* control
    gt,                      \* the game thread's position
    Process,                 \* StepComplete's loop index over Processors
    taskPC,                  \* taskPC[p]: position of the thread in Processors[p]
    \* observation (history) variables, written but never read by the actions' guards
    Generation,              \* number of commits performed so far
    InitialStates,           \* the grid InitializeCellStates drew
    RefStates,               \* the grid as computed by evaluating every cell
    Evaluated,               \* cells evaluated (not skipped) in the current cascade
    EvaluatedBefore,         \* Evaluated of the cascade committed last
    Flipped,                 \* cells whose state the last commit changed
    Submitted,               \* processors started in the current cascade, in order
    Completed,               \* processors whose ProcessCompleted ran in this cascade
    HookCount,               \* HookCount[c]: runs of the output update of cell c in this cascade
    HookNewState,            \* HookNewState[c]: NextStates[c] as that update read it
    \* the ParallelFor of ApplyCellRules(CellIDs), when its iterations are interleaved
    loopPC,                  \* loopPC[c]: position of the iteration of cell c
    AtLoopStart              \* the arrays a cascade writes, as the running loop found them

cfgVars == <<XClusters, ZClusters, XCellsPerCluster, ZCellsPerCluster, Divisions,
             BirthString, SurviveString>>
ruleVars == <<BirthRules, SurviveRules>>
lastVars == <<CurrentStates, ChangedLastStep, NeighborhoodChangedLastStep>>
nextVars == <<NextStates, ChangedThisStep, NeighborhoodChangedThisStep>>
topoVars == <<Neighborhoods, NeighborsOf, CellIDs>>
outVars == <<CurrentDataSlots, NextStepTime>>
taskVars == <<QueuedPool, WorkNotFinishedCounter, DoneEvent, taskPC>>
histVars == <<Generation, InitialStates, RefStates, Evaluated, EvaluatedBefore, Flipped>>
cascadeVars == <<Submitted, Completed>>
hookVars == <<HookCount, HookNewState>>
parVars == <<loopPC, AtLoopStart>>

vars == <<cfgVars, ruleVars, lastVars, nextVars, topoVars, outVars, taskVars,
          histVars, cascadeVars, hookVars, parVars, CurrentProcess, gt, Process>>

-----------------------------------------------------------------------------
(* Bounds of the model *)

MaxXClusters == 3
MaxZClusters == 2
MaxXCellsPerCluster == 2
MaxZCellsPerCluster == 2
MaxCells == 6
MaxDivisions == 3
MaxGenerations == 4

(* Program constants *)

RuleTableSize == 10
FloatMax == 1000
InitialDataSlot == -2

-----------------------------------------------------------------------------
(* Derived sizes: PreInitializeComponents *)

NumClusters == XClusters * ZClusters
CellsPerCluster == XCellsPerCluster * ZCellsPerCluster
NumCells == NumClusters * CellsPerCluster

Cells == 0 .. (NumCells - 1)
ProcessorIDs == 0 .. (Divisions - 1)

Min(a, b) == IF a < b THEN a ELSE b

\* mutant: the integer quotient in place of ceilf of the float quotient
MaxClustersPerInstanceFloor == NumClusters \div Divisions

\* int(ceilf(float(NumClusters) / float(Divisions))): exact for the sizes modelled
\* (both operands far below 2^24, so the float quotient is correctly rounded)
MaxClustersPerInstance == (NumClusters + Divisions - 1) \div Divisions

-----------------------------------------------------------------------------
(* Rule strings: TChar<TCHAR>::IsDigit, ConvertCharDigitToInt *)

DigitChars == {"0", "1", "2", "3", "4", "5", "6", "7", "8", "9"}

IsDigit(character) == character \in DigitChars

ConvertCharDigitToInt(character) ==
    CASE character = "0" -> 0 [] character = "1" -> 1 [] character = "2" -> 2
      [] character = "3" -> 3 [] character = "4" -> 4 [] character = "5" -> 5
      [] character = "6" -> 6 [] character = "7" -> 7 [] character = "8" -> 8
      [] character = "9" -> 9

RECURSIVE ParseRuleStringToggle(_, _)
\* mutant: a digit flips its entry, so that a digit written twice is not set
ParseRuleStringToggle(Rules, String) ==
    IF String = << >> THEN Rules
    ELSE LET character == Head(String)
             Marked == IF IsDigit(character)
                       THEN [Rules EXCEPT ![ConvertCharDigitToInt(character)] = ~@]
                       ELSE Rules
         IN  ParseRuleStringToggle(Marked, Tail(String))

RECURSIVE ParseRuleString(_, _)
\* the loop of InitializeCellRules over one string, from table Rules on
ParseRuleString(Rules, String) ==
    IF String = << >> THEN Rules
    ELSE LET character == Head(String)
             Marked == IF IsDigit(character)
                       THEN [Rules EXCEPT ![ConvertCharDigitToInt(character)] = TRUE]
                       ELSE Rules
         IN  ParseRuleString(Marked, Tail(String))

EmptyRules == [n \in 0 .. (RuleTableSize - 1) |-> FALSE]

\* (BirthString, SurviveString) pairs the engine is run with
RulePairs ==
    { << <<"3">>, <<"2", "3">> >>,            \* the defaults of the header: B3/S23
      << <<"0", "6">>, <<"2", "/", "6", "2">> >> }

-----------------------------------------------------------------------------
(* Grid topology *)

\* mutant: xDown and zDown as (x - 1) % XCells and (z - 1) % ZCells, which C++
\* evaluates to -1 at coordinate 0
NeighborhoodOfTruncatedModulo(CellID) ==
    LET XCells == XClusters * XCellsPerCluster
        ZCells == ZClusters * ZCellsPerCluster
        z == CellID \div XCells
        x == CellID % XCells
        zUp == (z + 1) % ZCells
        zDown == IF z = 0 THEN -1 ELSE z - 1
        xUp == (x + 1) % XCells
        xDown == IF x = 0 THEN -1 ELSE x - 1
    IN  << xDown + (XCells * zDown), x + (XCells * zDown), xUp + (XCells * zDown),
           xDown + (XCells * z), xUp + (XCells * z),
           xDown + (XCells * zUp), x + (XCells * zUp), xUp + (XCells * zUp) >>

\* mutant: xUp as x + 1, without the modulo
NeighborhoodOfNoWrapRight(CellID) ==
    LET XCells == XClusters * XCellsPerCluster
        ZCells == ZClusters * ZCellsPerCluster
        z == CellID \div XCells
        x == CellID % XCells
        zUp == (z + 1) % ZCells
        zDown == (z - 1 + ZCells) % ZCells
        xUp == x + 1
        xDown == (x - 1 + XCells) % XCells
    IN  << xDown + (XCells * zDown), x + (XCells * zDown), xUp + (XCells * zDown),
           xDown + (XCells * z), xUp + (XCells * z),
           xDown + (XCells * zUp), x + (XCells * zUp), xUp + (XCells * zUp) >>

\* the body of the ParallelFor of InitializeCellNeighborhoods for one cell
NeighborhoodOf(CellID) ==
    LET XCells == XClusters * XCellsPerCluster
        ZCells == ZClusters * ZCellsPerCluster
        z == CellID \div XCells
        x == CellID % XCells
        zUp == (z + 1) % ZCells
        zDown == (z - 1 + ZCells) % ZCells
        xUp == (x + 1) % XCells
        xDown == (x - 1 + XCells) % XCells
    IN  << xDown + (XCells * zDown), x + (XCells * zDown), xUp + (XCells * zDown),
           xDown + (XCells * z), xUp + (XCells * z),
           xDown + (XCells * zUp), x + (XCells * zUp), xUp + (XCells * zUp) >>

CellsIDsFromCluster(ClusterID) ==
    LET ClusterX == ClusterID % XClusters
        ClusterZ == ClusterID \div XClusters
    IN  [k \in 1 .. CellsPerCluster |->
            LET z == (k - 1) \div XCellsPerCluster
                x == (k - 1) % XCellsPerCluster
            IN  (ClusterZ * ZCellsPerCluster + z) * XClusters * XCellsPerCluster
                    + XCellsPerCluster * ClusterX + x]

RECURSIVE AppendClusters(_, _)
\* the loop "for (j = FirstCluster; j < End; ++j) ProcessorCells.Append(...)"
AppendClusters(j, End) ==
    IF j < End THEN CellsIDsFromCluster(j) \o AppendClusters(j + 1, End)
    ELSE << >>

\* mutant: End not capped at NumClusters
ProcessorCellsUncapped(i) ==
    LET FirstCluster == i * MaxClustersPerInstance
        End == FirstCluster + MaxClustersPerInstance
    IN  AppendClusters(FirstCluster, End)

\* the cell list InitializeCellProcessors gives processor i
ProcessorCells(i) ==
    LET FirstCluster == i * MaxClustersPerInstance
        End == Min(FirstCluster + MaxClustersPerInstance, NumClusters)
    IN  AppendClusters(FirstCluster, End)

-----------------------------------------------------------------------------
(* Cell rules *)

\* GetCellAliveNeighbors, reading the grid States
AliveNeighborsIn(States, CellID) ==
    LET Neighborhood == Neighborhoods[CellID]
    IN  Cardinality({k \in DOMAIN Neighborhood : States[Neighborhood[k]]})

\* mutant: the alive neighbours counted in the buffer the cascade is writing
GetCellAliveNeighborsNext(CellID) == AliveNeighborsIn(NextStates, CellID)

GetCellAliveNeighbors(CellID) == AliveNeighborsIn(CurrentStates, CellID)

\* mutant: the skip test without NeighborhoodChangedLastStep
ShouldEvaluateOwnChange(CellID) == ChangedLastStep[CellID]

\* the skip test of ApplyCellRules(CellIDs) and SetCellNextCustomData(CellIDs)
ShouldEvaluate(CellID) ==
    NeighborhoodChangedLastStep[CellID] \/ ChangedLastStep[CellID]

\* the state a cell gets from the rules: the if/else of ApplyCellRules
RuleResult(IsAlive, AliveNeighbors) ==
    IF IsAlive THEN SurviveRules[AliveNeighbors] ELSE BirthRules[AliveNeighbors]

\* mutant: the loop over NeighborsOf[CellID] left out
MarkInfluencedNone(Flags, Influenced) == Flags

RECURSIVE MarkInfluenced(_, _)
\* "for (InfluencedCellID : *NeighborsOf[CellID]) NeighborhoodChangedThisStep[..] = true"
MarkInfluenced(Flags, Influenced) ==
    IF Influenced = << >> THEN Flags
    ELSE MarkInfluenced([Flags EXCEPT ![Head(Influenced)] = TRUE], Tail(Influenced))

\* the lambda of ApplyCellRules(CellIDs) for one cell, on the record st of the
\* three arrays a cascade writes
ApplyCellRulesCell(st, CellID) ==
    IF ShouldEvaluate(CellID)
    THEN LET NewState == RuleResult(CurrentStates[CellID], GetCellAliveNeighbors(CellID))
         IN  IF NewState # CurrentStates[CellID]
             THEN [NextStates |-> [st.NextStates EXCEPT ![CellID] = NewState],
                   ChangedThisStep |-> [st.ChangedThisStep EXCEPT ![CellID] = TRUE],
                   NeighborhoodChangedThisStep |->
                       MarkInfluenced(st.NeighborhoodChangedThisStep, NeighborsOf[CellID])]
             ELSE [st EXCEPT !.NextStates[CellID] = NewState]
    ELSE st

RECURSIVE ApplyCellRules(_, _)
\* ApplyCellRules(CellIDs): the cells of IDs in list order (the writes of two cells
\* never conflict: each writes its own NextStates/ChangedThisStep entry and only
\* ever TRUE into NeighborhoodChangedThisStep)
ApplyCellRules(st, IDs) ==
    IF IDs = << >> THEN st
    ELSE ApplyCellRules(ApplyCellRulesCell(st, Head(IDs)), Tail(IDs))

\* the lambda of SetCellNextCustomData(CellIDs) for one cell; Next is NextStates
\* as ApplyCellRules left it
CustomDataCell(Slots, Next, CellID) ==
    IF ShouldEvaluate(CellID)
    THEN IF Next[CellID] THEN [Slots EXCEPT ![CellID] = FloatMax]
         ELSE IF CurrentStates[CellID] THEN [Slots EXCEPT ![CellID] = NextStepTime]
         ELSE Slots
    ELSE Slots

RECURSIVE SetCellNextCustomData(_, _, _)
SetCellNextCustomData(Slots, Next, IDs) ==
    IF IDs = << >> THEN Slots
    ELSE SetCellNextCustomData(CustomDataCell(Slots, Next, Head(IDs)), Next, Tail(IDs))

\* the runs of the guarded update of SetCellNextCustomData(CellIDs), observed: for
\* every cell that passes the skip test, one more run and the NextStates it read
HookTraceCell(h, Next, CellID) ==
    IF ShouldEvaluate(CellID)
    THEN [Count |-> [h.Count EXCEPT ![CellID] = @ + 1],
          NewState |-> [h.NewState EXCEPT ![CellID] = Next[CellID]]]
    ELSE h

RECURSIVE HookTrace(_, _, _)
HookTrace(h, Next, IDs) ==
    IF IDs = << >> THEN h
    ELSE HookTrace(HookTraceCell(h, Next, Head(IDs)), Next, Tail(IDs))

\* the three arrays a cascade writes, as one record
WrittenArrays ==
    [NextStates |-> NextStates,
     ChangedThisStep |-> ChangedThisStep,
     NeighborhoodChangedThisStep |-> NeighborhoodChangedThisStep]

\* ApplyCellRules(int CellID), the overload without the skip test, on every cell
\* of the grid States: the generation computed by evaluating every cell
FullGeneration(States) ==
    [CellID \in Cells |-> RuleResult(States[CellID], AliveNeighborsIn(States, CellID))]

SeqToSet(s) == {s[k] : k \in DOMAIN s}

-----------------------------------------------------------------------------
(* Initial states *)

AllCells(Value) == [CellID \in Cells |-> Value]
AllProcessors(Value) == [p \in ProcessorIDs |-> Value]

\* the fields as the constructor leaves them, before PostInitializeComponents
Unstarted ==
    /\ BirthRules = << >> /\ SurviveRules = << >>
    /\ CurrentStates = << >> /\ NextStates = << >>
    /\ ChangedLastStep = << >> /\ ChangedThisStep = << >>
    /\ NeighborhoodChangedLastStep = << >> /\ NeighborhoodChangedThisStep = << >>
    /\ Neighborhoods = << >> /\ NeighborsOf = << >> /\ CellIDs = << >>
    /\ CurrentDataSlots = << >> /\ NextStepTime = 0
    /\ CurrentProcess = 0
    /\ QueuedPool = << >> /\ WorkNotFinishedCounter = << >> /\ DoneEvent = << >>
    /\ taskPC = << >>
    /\ Process = 0
    /\ Generation = 0 /\ InitialStates = << >> /\ RefStates = << >>
    /\ Evaluated = {} /\ EvaluatedBefore = {} /\ Flipped = {}
    /\ Submitted = << >> /\ Completed = {}
    /\ HookCount = << >> /\ HookNewState = << >>
    /\ loopPC = << >> /\ AtLoopStart = << >>

Init ==
    /\ XClusters \in 1 .. MaxXClusters
    /\ ZClusters \in 1 .. MaxZClusters
    /\ XCellsPerCluster \in 1 .. MaxXCellsPerCluster
    /\ ZCellsPerCluster \in 1 .. MaxZCellsPerCluster
    /\ NumCells <= MaxCells
    /\ Divisions \in 1 .. MaxDivisions
    /\ \E pair \in RulePairs : BirthString = pair[1] /\ SurviveString = pair[2]
    /\ Unstarted
    /\ gt = "InitializeCellRules"

-----------------------------------------------------------------------------
(* PostInitializeComponents, one action per function it calls *)

InitializeCellRules ==
    /\ gt = "InitializeCellRules"
    /\ BirthRules' = ParseRuleString(EmptyRules, BirthString)
    /\ SurviveRules' = ParseRuleString(EmptyRules, SurviveString)
    /\ gt' = "InitializeCellStates"
    /\ UNCHANGED <<cfgVars, hookVars, parVars, lastVars, nextVars, topoVars, outVars, taskVars,
                   histVars, cascadeVars, CurrentProcess, Process>>

\* FRandRange makes any grid possible when 0 < Probability < 1
InitializeCellStates ==
    /\ gt = "InitializeCellStates"
    /\ \E States \in [Cells -> BOOLEAN] :
          /\ CurrentStates' = States
          /\ InitialStates' = States
          /\ RefStates' = States
    /\ NextStates' = AllCells(FALSE)
    /\ ChangedLastStep' = AllCells(TRUE)
    /\ ChangedThisStep' = AllCells(TRUE)
    /\ loopPC' = AllCells(0)
    /\ gt' = "InitializeCellCustomData"
    /\ UNCHANGED <<cfgVars, hookVars, AtLoopStart, ruleVars, NeighborhoodChangedLastStep,
                   NeighborhoodChangedThisStep, topoVars, outVars, taskVars,
                   Generation, Evaluated, EvaluatedBefore, Flipped, cascadeVars,
                   CurrentProcess, Process>>

InitializeCellCustomData ==
    /\ gt = "InitializeCellCustomData"
    /\ CurrentDataSlots' = AllCells(InitialDataSlot)
    /\ gt' = "InitializeCellNeighborhoods"
    /\ UNCHANGED <<cfgVars, hookVars, parVars, ruleVars, lastVars, nextVars, topoVars, NextStepTime,
                   taskVars, histVars, cascadeVars, CurrentProcess, Process>>

InitializeCellNeighborhoods ==
    /\ gt = "InitializeCellNeighborhoods"
    /\ NeighborhoodChangedLastStep' = AllCells(TRUE)
    /\ NeighborhoodChangedThisStep' = AllCells(FALSE)
    /\ Neighborhoods' = [CellID \in Cells |-> NeighborhoodOf(CellID)]
    /\ gt' = "InitializeCellNeighborsOf"
    /\ UNCHANGED <<cfgVars, hookVars, parVars, ruleVars, CurrentStates, ChangedLastStep, NextStates,
                   ChangedThisStep, NeighborsOf, CellIDs, outVars, taskVars,
                   histVars, cascadeVars, CurrentProcess, Process>>

InitializeCellNeighborsOf ==
    /\ gt = "InitializeCellNeighborsOf"
    /\ NeighborsOf' = Neighborhoods
    /\ gt' = "InitializeCellProcessors"
    /\ UNCHANGED <<cfgVars, hookVars, parVars, ruleVars, lastVars, nextVars, Neighborhoods, CellIDs,
                   outVars, taskVars, histVars, cascadeVars, CurrentProcess, Process>>

\* a new FAsyncTask is idle: no pool, no work outstanding
InitializeCellProcessors ==
    /\ gt = "InitializeCellProcessors"
    /\ CellIDs' = [i \in ProcessorIDs |-> ProcessorCells(i)]
    /\ QueuedPool' = AllProcessors(FALSE)
    /\ WorkNotFinishedCounter' = AllProcessors(0)
    /\ DoneEvent' = AllProcessors(FALSE)
    /\ taskPC' = AllProcessors("Idle")
    /\ gt' = "RunProcessesOnce"
    /\ UNCHANGED <<cfgVars, hookVars, parVars, ruleVars, lastVars, nextVars, Neighborhoods, NeighborsOf,
                   outVars, histVars, cascadeVars, CurrentProcess, Process>>

-----------------------------------------------------------------------------
(* FAsyncTask<CellProcessor>, as the driver uses it.  A task started in the  *)
(* background holds its pool in QueuedPool until a thread synchronises with  *)
(* it; EnsureCompletion(false) waits for DoneEvent only when QueuedPool is   *)
(* set, and returns at once on a task that was not started in the           *)
(* background.                                                              *)

\* EnsureCompletion on Processors[p] can return
CanEnsureCompletion(p) == QueuedPool[p] => DoneEvent[p]

\* the fields of Processors[p] after FAsyncTask::Start
StartedCounter(p) == [WorkNotFinishedCounter EXCEPT ![p] = @ + 1]

-----------------------------------------------------------------------------
(* StartingDataSetup / RunProcessesOnce *)

\* CurrentProcess = 0; Processors[0]->StartSynchronousTask(): the game thread
\* enters DoWork of processor 0 itself
RunProcessesOnce ==
    /\ gt = "RunProcessesOnce"
    /\ NextStepTime' = 0
    /\ CurrentProcess' = 0
    /\ WorkNotFinishedCounter' = StartedCounter(0)
    /\ QueuedPool' = [QueuedPool EXCEPT ![0] = FALSE]
    /\ taskPC' = [taskPC EXCEPT ![0] = "DoWork"]
    /\ Submitted' = <<0>>
    /\ Completed' = {}
    /\ Evaluated' = {}
    /\ HookCount' = AllCells(0)
    /\ HookNewState' = AllCells(FALSE)
    /\ AtLoopStart' = WrittenArrays
    /\ gt' = "StartSynchronousTask"
    /\ UNCHANGED <<cfgVars, loopPC, ruleVars, lastVars, nextVars, topoVars, CurrentDataSlots,
                   DoneEvent, Generation, InitialStates, RefStates, EvaluatedBefore,
                   Flipped, Process>>

\* StartSynchronousTask has returned; Processors.Last()->EnsureCompletion(false)
RunProcessesOnceEnsureLast ==
    /\ gt = "StartSynchronousTask"
    /\ taskPC[0] = "Idle"
    /\ CanEnsureCompletion(Divisions - 1)
    /\ QueuedPool' = [QueuedPool EXCEPT ![Divisions - 1] = FALSE]
    /\ gt' = "BeginPlay"
    /\ UNCHANGED <<cfgVars, hookVars, parVars, ruleVars, lastVars, nextVars, topoVars, outVars,
                   WorkNotFinishedCounter, DoneEvent, taskPC, histVars, cascadeVars,
                   CurrentProcess, Process>>

-----------------------------------------------------------------------------
(* CellProcessor::DoWork, on whichever thread runs Processors[p] *)

\* a pool thread takes the queued task and enters CellProcessorWork
DoThreadedWork(p) ==
    /\ p \in DOMAIN taskPC
    /\ taskPC[p] = "Queued"
    /\ taskPC' = [taskPC EXCEPT ![p] = "DoWork"]
    /\ AtLoopStart' = WrittenArrays
    /\ UNCHANGED <<cfgVars, hookVars, loopPC, ruleVars, lastVars, nextVars, topoVars, outVars,
                   QueuedPool, WorkNotFinishedCounter, DoneEvent, histVars,
                   cascadeVars, CurrentProcess, gt, Process>>

\* mutant: the new states written to CurrentStates as well (no second buffer)
CellProcessorWorkInPlace(p) ==
    /\ p \in DOMAIN taskPC
    /\ taskPC[p] = "DoWork"
    /\ LET st == ApplyCellRules(WrittenArrays, CellIDs[p])
           h == HookTrace([Count |-> HookCount, NewState |-> HookNewState],
                          st.NextStates, CellIDs[p])
       IN  /\ NextStates' = st.NextStates
           /\ CurrentStates' =
                  [c \in Cells |-> IF c \in SeqToSet(CellIDs[p]) /\ ShouldEvaluate(c)
                                   THEN st.NextStates[c] ELSE CurrentStates[c]]
           /\ ChangedThisStep' = st.ChangedThisStep
           /\ NeighborhoodChangedThisStep' = st.NeighborhoodChangedThisStep
           /\ CurrentDataSlots' =
                  SetCellNextCustomData(CurrentDataSlots, st.NextStates, CellIDs[p])
           /\ HookCount' = h.Count
           /\ HookNewState' = h.NewState
    /\ Evaluated' = Evaluated \cup {c \in SeqToSet(CellIDs[p]) : ShouldEvaluate(c)}
    /\ taskPC' = [taskPC EXCEPT ![p] = "ProcessCompleted"]
    /\ UNCHANGED <<cfgVars, parVars, ruleVars, ChangedLastStep,
                   NeighborhoodChangedLastStep, topoVars, NextStepTime,
                   QueuedPool, WorkNotFinishedCounter, DoneEvent,
                   Generation, InitialStates, RefStates, EvaluatedBefore, Flipped,
                   cascadeVars, CurrentProcess, gt, Process>>

\* mutant: SetCellNextCustomData called before ApplyCellRules
CellProcessorWorkHookFirst(p) ==
    /\ p \in DOMAIN taskPC
    /\ taskPC[p] = "DoWork"
    /\ LET st == ApplyCellRules(WrittenArrays, CellIDs[p])
           h == HookTrace([Count |-> HookCount, NewState |-> HookNewState],
                          NextStates, CellIDs[p])
       IN  /\ NextStates' = st.NextStates
           /\ ChangedThisStep' = st.ChangedThisStep
           /\ NeighborhoodChangedThisStep' = st.NeighborhoodChangedThisStep
           /\ CurrentDataSlots' =
                  SetCellNextCustomData(CurrentDataSlots, NextStates, CellIDs[p])
           /\ HookCount' = h.Count
           /\ HookNewState' = h.NewState
    /\ Evaluated' = Evaluated \cup {c \in SeqToSet(CellIDs[p]) : ShouldEvaluate(c)}
    /\ taskPC' = [taskPC EXCEPT ![p] = "ProcessCompleted"]
    /\ UNCHANGED <<cfgVars, parVars, ruleVars, lastVars, topoVars, NextStepTime,
                   QueuedPool, WorkNotFinishedCounter, DoneEvent,
                   Generation, InitialStates, RefStates, EvaluatedBefore, Flipped,
                   cascadeVars, CurrentProcess, gt, Process>>

\* Driver->CellProcessorWork(CellIDs): ApplyCellRules, then SetCellNextCustomData
CellProcessorWork(p) ==
    /\ p \in DOMAIN taskPC
    /\ taskPC[p] = "DoWork"
    /\ \A c \in SeqToSet(CellIDs[p]) : loopPC[c] = 0
    /\ LET st == ApplyCellRules(WrittenArrays, CellIDs[p])
           h == HookTrace([Count |-> HookCount, NewState |-> HookNewState],
                          st.NextStates, CellIDs[p])
       IN  /\ NextStates' = st.NextStates
           /\ ChangedThisStep' = st.ChangedThisStep
           /\ NeighborhoodChangedThisStep' = st.NeighborhoodChangedThisStep
           /\ CurrentDataSlots' =
                  SetCellNextCustomData(CurrentDataSlots, st.NextStates, CellIDs[p])
           /\ HookCount' = h.Count
           /\ HookNewState' = h.NewState
    /\ Evaluated' = Evaluated \cup {c \in SeqToSet(CellIDs[p]) : ShouldEvaluate(c)}
    /\ taskPC' = [taskPC EXCEPT ![p] = "ProcessCompleted"]
    /\ UNCHANGED <<cfgVars, parVars, ruleVars, lastVars, topoVars, NextStepTime,
                   QueuedPool, WorkNotFinishedCounter, DoneEvent,
                   Generation, InitialStates, RefStates, EvaluatedBefore, Flipped,
                   cascadeVars, CurrentProcess, gt, Process>>

\* mutant: the test "if (CurrentProcess != 0)" left out, so that the last
\* processor's completion starts processor 0 again
ProcessCompletedNoWrapTest(p) ==
    /\ p \in DOMAIN taskPC
    /\ taskPC[p] = "ProcessCompleted"
    /\ LET next == (CurrentProcess + 1) % Divisions
       IN  /\ CurrentProcess' = next
           /\ CanEnsureCompletion(next)
           /\ WorkNotFinishedCounter' = StartedCounter(next)
           /\ QueuedPool' = [QueuedPool EXCEPT ![next] = TRUE]
           /\ DoneEvent' = [DoneEvent EXCEPT ![next] = FALSE]
           /\ taskPC' = [taskPC EXCEPT ![p] = "Finish", ![next] = "Queued"]
           /\ Submitted' = Append(Submitted, next)
    /\ Completed' = Completed \cup {p}
    /\ UNCHANGED <<cfgVars, hookVars, parVars, ruleVars, lastVars, nextVars, topoVars, outVars,
                   histVars, gt, Process>>

\* mutant: CurrentProcess advanced, the next processor never started
ProcessCompletedNoStart(p) ==
    /\ p \in DOMAIN taskPC
    /\ taskPC[p] = "ProcessCompleted"
    /\ CurrentProcess' = (CurrentProcess + 1) % Divisions
    /\ taskPC' = [taskPC EXCEPT ![p] = "Finish"]
    /\ Completed' = Completed \cup {p}
    /\ UNCHANGED <<cfgVars, hookVars, parVars, ruleVars, lastVars, nextVars, topoVars, outVars,
                   WorkNotFinishedCounter, QueuedPool, DoneEvent, Submitted,
                   histVars, gt, Process>>

\* mutant: the cascade taken to end one processor early
ProcessCompletedWrapEarly(p) ==
    /\ p \in DOMAIN taskPC
    /\ taskPC[p] = "ProcessCompleted"
    /\ LET next == (CurrentProcess + 1) % Divisions
       IN  /\ CurrentProcess' = next
           /\ IF next # 0 /\ next # Divisions - 1
              THEN /\ CanEnsureCompletion(next)
                   /\ WorkNotFinishedCounter' = StartedCounter(next)
                   /\ QueuedPool' = [QueuedPool EXCEPT ![next] = TRUE]
                   /\ DoneEvent' = [DoneEvent EXCEPT ![next] = FALSE]
                   /\ taskPC' = [taskPC EXCEPT ![p] = "Finish", ![next] = "Queued"]
                   /\ Submitted' = Append(Submitted, next)
              ELSE /\ taskPC' = [taskPC EXCEPT ![p] = "Finish"]
                   /\ UNCHANGED <<WorkNotFinishedCounter, QueuedPool, DoneEvent,
                                  Submitted>>
    /\ Completed' = Completed \cup {p}
    /\ UNCHANGED <<cfgVars, hookVars, parVars, ruleVars, lastVars, nextVars, topoVars, outVars,
                   histVars, gt, Process>>

\* Driver->ProcessCompleted(): advance CurrentProcess and, unless it wrapped,
\* EnsureCompletion() and StartBackgroundTask() on the next processor
ProcessCompleted(p) ==
    /\ p \in DOMAIN taskPC
    /\ taskPC[p] = "ProcessCompleted"
    /\ LET next == (CurrentProcess + 1) % Divisions
       IN  /\ CurrentProcess' = next
           /\ IF next # 0
              THEN /\ CanEnsureCompletion(next)
                   /\ WorkNotFinishedCounter' = StartedCounter(next)
                   /\ QueuedPool' = [QueuedPool EXCEPT ![next] = TRUE]
                   /\ DoneEvent' = [DoneEvent EXCEPT ![next] = FALSE]
                   /\ taskPC' = [taskPC EXCEPT ![p] = "Finish", ![next] = "Queued"]
                   /\ Submitted' = Append(Submitted, next)
              ELSE /\ taskPC' = [taskPC EXCEPT ![p] = "Finish"]
                   /\ UNCHANGED <<WorkNotFinishedCounter, QueuedPool, DoneEvent,
                                  Submitted>>
    /\ Completed' = Completed \cup {p}
    /\ UNCHANGED <<cfgVars, hookVars, parVars, ruleVars, lastVars, nextVars, topoVars, outVars,
                   histVars, gt, Process>>

\* DoWork has returned into FAsyncTask: the work counter drops and, for a
\* background task, FinishThreadedWork triggers DoneEvent
FinishThreadedWork(p) ==
    /\ p \in DOMAIN taskPC
    /\ taskPC[p] = "Finish"
    /\ WorkNotFinishedCounter' = [WorkNotFinishedCounter EXCEPT ![p] = @ - 1]
    /\ DoneEvent' = [DoneEvent EXCEPT ![p] = IF QueuedPool[p] THEN TRUE ELSE @]
    /\ taskPC' = [taskPC EXCEPT ![p] = "Idle"]
    /\ UNCHANGED <<cfgVars, hookVars, parVars, ruleVars, lastVars, nextVars, topoVars, outVars,
                   QueuedPool, histVars, cascadeVars, CurrentProcess, gt, Process>>

-----------------------------------------------------------------------------
(* BeginPlay, TimerFired, StepComplete *)

\* BeginPlay calls StepComplete (and then arms the repeating StepTimer)
BeginPlay ==
    /\ gt = "BeginPlay"
    /\ gt' = "StepComplete"
    /\ Process' = 0
    /\ UNCHANGED <<cfgVars, hookVars, parVars, ruleVars, lastVars, nextVars, topoVars, outVars,
                   taskVars, histVars, cascadeVars, CurrentProcess>>

\* the StepTimer fires while the game thread is idle
TimerFired ==
    /\ gt = "Timer"
    /\ Generation < MaxGenerations
    /\ gt' = "StepComplete"
    /\ Process' = 0
    /\ UNCHANGED <<cfgVars, hookVars, parVars, ruleVars, lastVars, nextVars, topoVars, outVars,
                   taskVars, histVars, cascadeVars, CurrentProcess>>

\* mutant: only Processors.Last() is waited for ("strictly speaking we only need
\* to check the last one")
StepCompleteEnsureLastOnly ==
    /\ gt = "StepComplete"
    /\ CanEnsureCompletion(Divisions - 1)
    /\ QueuedPool' = [QueuedPool EXCEPT ![Divisions - 1] = FALSE]
    /\ Process' = Divisions
    /\ gt' = "TimestepPropertyShift"
    /\ UNCHANGED <<cfgVars, hookVars, parVars, ruleVars, lastVars, nextVars, topoVars, outVars,
                   WorkNotFinishedCounter, DoneEvent, taskPC, histVars, cascadeVars,
                   CurrentProcess>>

\* one turn of "for (Process : Processors) Process->EnsureCompletion(false)";
\* after the last turn the game thread enters TimestepPropertyShift
StepCompleteEnsure ==
    /\ gt = "StepComplete"
    /\ Process < Divisions
    /\ CanEnsureCompletion(Process)
    /\ QueuedPool' = [QueuedPool EXCEPT ![Process] = FALSE]
    /\ Process' = Process + 1
    /\ gt' = IF Process + 1 = Divisions THEN "TimestepPropertyShift" ELSE "StepComplete"
    /\ UNCHANGED <<cfgVars, hookVars, parVars, ruleVars, lastVars, nextVars, topoVars, outVars,
                   WorkNotFinishedCounter, DoneEvent, taskPC, histVars, cascadeVars,
                   CurrentProcess>>

\* mutant: the this-step flags cleared before they are copied to the last-step flags
TimestepPropertyShiftClearFirst ==
    /\ gt = "TimestepPropertyShift"
    /\ NextStepTime' = Generation + 1
    /\ CurrentStates' = NextStates
    /\ NeighborhoodChangedLastStep' = AllCells(FALSE)
    /\ NeighborhoodChangedThisStep' = AllCells(FALSE)
    /\ ChangedLastStep' = AllCells(FALSE)
    /\ ChangedThisStep' = AllCells(FALSE)
    /\ Generation' = Generation + 1
    /\ RefStates' = FullGeneration(RefStates)
    /\ Flipped' = {c \in Cells : NextStates[c] # CurrentStates[c]}
    /\ EvaluatedBefore' = Evaluated
    /\ gt' = "StartBackgroundTask"
    /\ UNCHANGED <<cfgVars, hookVars, parVars, ruleVars, NextStates, topoVars, CurrentDataSlots,
                   taskVars, InitialStates, Evaluated, cascadeVars, CurrentProcess,
                   Process>>

\* mutant: the two state buffers exchanged instead of NextStates copied
TimestepPropertyShiftSwap ==
    /\ gt = "TimestepPropertyShift"
    /\ NextStepTime' = Generation + 1
    /\ CurrentStates' = NextStates
    /\ NextStates' = CurrentStates
    /\ NeighborhoodChangedLastStep' = NeighborhoodChangedThisStep
    /\ NeighborhoodChangedThisStep' = AllCells(FALSE)
    /\ ChangedLastStep' = ChangedThisStep
    /\ ChangedThisStep' = AllCells(FALSE)
    /\ Generation' = Generation + 1
    /\ RefStates' = FullGeneration(RefStates)
    /\ Flipped' = {c \in Cells : NextStates[c] # CurrentStates[c]}
    /\ EvaluatedBefore' = Evaluated
    /\ gt' = "StartBackgroundTask"
    /\ UNCHANGED <<cfgVars, hookVars, parVars, ruleVars, topoVars, CurrentDataSlots,
                   taskVars, InitialStates, Evaluated, cascadeVars, CurrentProcess,
                   Process>>

\* the commit; the clock is counted in step periods, commit k+1 happening at time k
TimestepPropertyShift ==
    /\ gt = "TimestepPropertyShift"
    /\ NextStepTime' = Generation + 1
    /\ CurrentStates' = NextStates
    /\ NeighborhoodChangedLastStep' = NeighborhoodChangedThisStep
    /\ NeighborhoodChangedThisStep' = AllCells(FALSE)
    /\ ChangedLastStep' = ChangedThisStep
    /\ ChangedThisStep' = AllCells(FALSE)
    /\ Generation' = Generation + 1
    /\ RefStates' = FullGeneration(RefStates)
    /\ Flipped' = {c \in Cells : NextStates[c] # CurrentStates[c]}
    /\ EvaluatedBefore' = Evaluated
    /\ gt' = "StartBackgroundTask"
    /\ UNCHANGED <<cfgVars, hookVars, parVars, ruleVars, NextStates, topoVars, CurrentDataSlots,
                   taskVars, InitialStates, Evaluated, cascadeVars, CurrentProcess,
                   Process>>

\* mutant: every processor is started in the background at once
StepCompleteStartAll ==
    /\ gt = "StartBackgroundTask"
    /\ CurrentProcess' = 0
    /\ WorkNotFinishedCounter' = [p \in ProcessorIDs |-> WorkNotFinishedCounter[p] + 1]
    /\ QueuedPool' = AllProcessors(TRUE)
    /\ DoneEvent' = AllProcessors(FALSE)
    /\ taskPC' = AllProcessors("Queued")
    /\ Submitted' = [k \in 1 .. Divisions |-> k - 1]
    /\ Completed' = {}
    /\ Evaluated' = {}
    /\ HookCount' = AllCells(0)
    /\ HookNewState' = AllCells(FALSE)
    /\ gt' = "Timer"
    /\ UNCHANGED <<cfgVars, parVars, ruleVars, lastVars, nextVars, topoVars, outVars,
                   Generation, InitialStates, RefStates, EvaluatedBefore, Flipped,
                   Process>>

\* "kick off calculation of next stage": CurrentProcess = 0 and
\* Processors[0]->StartBackgroundTask()
StepCompleteStart ==
    /\ gt = "StartBackgroundTask"
    /\ CurrentProcess' = 0
    /\ WorkNotFinishedCounter' = StartedCounter(0)
    /\ QueuedPool' = [QueuedPool EXCEPT ![0] = TRUE]
    /\ DoneEvent' = [DoneEvent EXCEPT ![0] = FALSE]
    /\ taskPC' = [taskPC EXCEPT ![0] = "Queued"]
    /\ Submitted' = <<0>>
    /\ Completed' = {}
    /\ Evaluated' = {}
    /\ HookCount' = AllCells(0)
    /\ HookNewState' = AllCells(FALSE)
    /\ gt' = "Timer"
    /\ UNCHANGED <<cfgVars, parVars, ruleVars, lastVars, nextVars, topoVars, outVars,
                   Generation, InitialStates, RefStates, EvaluatedBefore, Flipped,
                   Process>>

-----------------------------------------------------------------------------
(* Specifications *)

Worker(p) ==
    \/ DoThreadedWork(p)
    \/ CellProcessorWork(p)
    \/ ProcessCompleted(p)
    \/ FinishThreadedWork(p)

Next ==
    \/ InitializeCellRules
    \/ InitializeCellStates
    \/ InitializeCellCustomData
    \/ InitializeCellNeighborhoods
    \/ InitializeCellNeighborsOf
    \/ InitializeCellProcessors
    \/ RunProcessesOnce
    \/ RunProcessesOnceEnsureLast
    \/ BeginPlay
    \/ TimerFired
    \/ StepCompleteEnsure
    \/ TimestepPropertyShift
    \/ StepCompleteStart
    \/ \E p \in 0 .. (MaxDivisions - 1) : DoThreadedWork(p)
    \/ \E p \in 0 .. (MaxDivisions - 1) : CellProcessorWork(p)
    \/ \E p \in 0 .. (MaxDivisions - 1) : ProcessCompleted(p)
    \/ \E p \in 0 .. (MaxDivisions - 1) : FinishThreadedWork(p)

Spec == Init /\ [][Next]_vars

MaxFairCells == 2

\* the grids the fair behaviours start from
FairInit == Init /\ NumCells <= MaxFairCells

\* the thread pool runs every queued task to its end, and the game thread runs
\* on when the task it waits for is done
FairSpec ==
    /\ FairInit
    /\ [][Next]_vars
    /\ \A p \in 0 .. (MaxDivisions - 1) : WF_vars(Worker(p))
    /\ WF_vars(RunProcessesOnceEnsureLast)
    /\ WF_vars(StepCompleteEnsure)

-----------------------------------------------------------------------------
(* The driver with the ParallelFor of ApplyCellRules(CellIDs) taken apart: the *)
(* iterations of a processor's cells run in any order and interleaved, each    *)
(* iteration in steps: the skip test, the rule and the writes of the cell's    *)
(* own NextStates and ChangedThisStep entries first, then one step per entry   *)
(* of NeighborsOf[CellID] for the write of NeighborhoodChangedThisStep.  A     *)
(* TArray<bool> holds one byte per entry, so a write changes one entry.        *)

MaxParCells == 2
MaxParDivisions == 2

\* the iteration of cell CellID has returned
LoopDone(CellID) == loopPC[CellID] = Len(NeighborsOf[CellID]) + 1

\* the iteration of CellID up to the loop over NeighborsOf[CellID]
ParApplyCell(p, CellID) ==
    /\ p \in DOMAIN taskPC
    /\ taskPC[p] = "DoWork"
    /\ CellID \in SeqToSet(CellIDs[p])
    /\ loopPC[CellID] = 0
    /\ IF ShouldEvaluate(CellID)
       THEN LET NewState ==
                    RuleResult(CurrentStates[CellID], GetCellAliveNeighbors(CellID))
            IN  /\ NextStates' = [NextStates EXCEPT ![CellID] = NewState]
                /\ IF NewState # CurrentStates[CellID]
                   THEN /\ ChangedThisStep' = [ChangedThisStep EXCEPT ![CellID] = TRUE]
                        /\ loopPC' = [loopPC EXCEPT ![CellID] = 1]
                   ELSE /\ UNCHANGED ChangedThisStep
                        /\ loopPC' = [loopPC EXCEPT
                                         ![CellID] = Len(NeighborsOf[CellID]) + 1]
       ELSE /\ UNCHANGED <<NextStates, ChangedThisStep>>
            /\ loopPC' = [loopPC EXCEPT ![CellID] = Len(NeighborsOf[CellID]) + 1]
    /\ UNCHANGED <<cfgVars, hookVars, AtLoopStart, ruleVars, lastVars,
                   NeighborhoodChangedThisStep, topoVars, outVars, taskVars,
                   histVars, cascadeVars, CurrentProcess, gt, Process>>

\* one turn of "for (InfluencedCellID : *NeighborsOf[CellID])"
ParMarkInfluenced(p, CellID) ==
    /\ p \in DOMAIN taskPC
    /\ taskPC[p] = "DoWork"
    /\ CellID \in SeqToSet(CellIDs[p])
    /\ loopPC[CellID] \in DOMAIN NeighborsOf[CellID]
    /\ NeighborhoodChangedThisStep' =
          [NeighborhoodChangedThisStep EXCEPT
              ![NeighborsOf[CellID][loopPC[CellID]]] = TRUE]
    /\ loopPC' = [loopPC EXCEPT ![CellID] = @ + 1]
    /\ UNCHANGED <<cfgVars, hookVars, AtLoopStart, ruleVars, lastVars, NextStates,
                   ChangedThisStep, topoVars, outVars, taskVars, histVars,
                   cascadeVars, CurrentProcess, gt, Process>>

\* the ParallelFor has joined: ApplyCellRules returns, SetCellNextCustomData runs
\* (each of its iterations writes the data slot of its own cell only)
ParLoopEnd(p) ==
    /\ p \in DOMAIN taskPC
    /\ taskPC[p] = "DoWork"
    /\ \A c \in SeqToSet(CellIDs[p]) : LoopDone(c)
    /\ LET h == HookTrace([Count |-> HookCount, NewState |-> HookNewState],
                          NextStates, CellIDs[p])
       IN  /\ CurrentDataSlots' =
                  SetCellNextCustomData(CurrentDataSlots, NextStates, CellIDs[p])
           /\ HookCount' = h.Count
           /\ HookNewState' = h.NewState
    /\ Evaluated' = Evaluated \cup {c \in SeqToSet(CellIDs[p]) : ShouldEvaluate(c)}
    /\ loopPC' = [c \in Cells |-> IF c \in SeqToSet(CellIDs[p]) THEN 0 ELSE loopPC[c]]
    /\ taskPC' = [taskPC EXCEPT ![p] = "ProcessCompleted"]
    /\ UNCHANGED <<cfgVars, AtLoopStart, ruleVars, lastVars, nextVars, topoVars,
                   NextStepTime, QueuedPool, WorkNotFinishedCounter, DoneEvent,
                   Generation, InitialStates, RefStates, EvaluatedBefore, Flipped,
                   cascadeVars, CurrentProcess, gt, Process>>

ParInit == Init /\ NumCells <= MaxParCells /\ Divisions <= MaxParDivisions

ParNext ==
    \/ InitializeCellRules
    \/ InitializeCellStates
    \/ InitializeCellCustomData
    \/ InitializeCellNeighborhoods
    \/ InitializeCellNeighborsOf
    \/ InitializeCellProcessors
    \/ RunProcessesOnce
    \/ RunProcessesOnceEnsureLast
    \/ BeginPlay
    \/ TimerFired
    \/ StepCompleteEnsure
    \/ TimestepPropertyShift
    \/ StepCompleteStart
    \/ \E p \in 0 .. (MaxParDivisions - 1) : DoThreadedWork(p)
    \/ \E p \in 0 .. (MaxParDivisions - 1) : \E c \in 0 .. (MaxParCells - 1) :
          ParApplyCell(p, c)
    \/ \E p \in 0 .. (MaxParDivisions - 1) : \E c \in 0 .. (MaxParCells - 1) :
          ParMarkInfluenced(p, c)
    \/ \E p \in 0 .. (MaxParDivisions - 1) : ParLoopEnd(p)
    \/ \E p \in 0 .. (MaxParDivisions - 1) : ProcessCompleted(p)
    \/ \E p \in 0 .. (MaxParDivisions - 1) : FinishThreadedWork(p)

ParSpec == ParInit /\ [][ParNext]_vars

-----------------------------------------------------------------------------
(* The topology functions on larger grids: the driver with an all-dead grid  *)
(* (Probability = 0) and the default rule strings, from the call of          *)
(* InitializeCellNeighborhoods to the end of InitializeCellProcessors.       *)

MaxTopoClusters == 3
MaxTopoCellsPerCluster == 2
MaxTopoDivisions == 5

TopoInit ==
    /\ XClusters \in 1 .. MaxTopoClusters
    /\ ZClusters \in 1 .. MaxTopoClusters
    /\ XCellsPerCluster \in 1 .. MaxTopoCellsPerCluster
    /\ ZCellsPerCluster \in 1 .. MaxTopoCellsPerCluster
    /\ Divisions \in 1 .. MaxTopoDivisions
    /\ BirthString = <<"3">> /\ SurviveString = <<"2", "3">>
    /\ BirthRules = ParseRuleString(EmptyRules, BirthString)
    /\ SurviveRules = ParseRuleString(EmptyRules, SurviveString)
    /\ CurrentStates = AllCells(FALSE) /\ NextStates = AllCells(FALSE)
    /\ ChangedLastStep = AllCells(TRUE) /\ ChangedThisStep = AllCells(TRUE)
    /\ NeighborhoodChangedLastStep = << >> /\ NeighborhoodChangedThisStep = << >>
    /\ Neighborhoods = << >> /\ NeighborsOf = << >> /\ CellIDs = << >>
    /\ CurrentDataSlots = AllCells(InitialDataSlot) /\ NextStepTime = 0
    /\ CurrentProcess = 0
    /\ QueuedPool = << >> /\ WorkNotFinishedCounter = << >> /\ DoneEvent = << >>
    /\ taskPC = << >>
    /\ Process = 0
    /\ Generation = 0
    /\ InitialStates = AllCells(FALSE) /\ RefStates = AllCells(FALSE)
    /\ Evaluated = {} /\ EvaluatedBefore = {} /\ Flipped = {}
    /\ Submitted = << >> /\ Completed = {}
    /\ HookCount = << >> /\ HookNewState = << >>
    /\ loopPC = AllCells(0) /\ AtLoopStart = << >>
    /\ gt = "InitializeCellNeighborhoods"

TopoNext ==
    \/ InitializeCellNeighborhoods
    \/ InitializeCellNeighborsOf
    \/ InitializeCellProcessors

TopoSpec == TopoInit /\ [][TopoNext]_vars

-----------------------------------------------------------------------------
(* InitializeCellRules on its own: the driver constructed with rule strings   *)
(* of up to MaxRuleLen characters over RuleChars, up to the return of        *)
(* InitializeCellRules.                                                      *)

MaxRuleLen == 3

\* the smallest and the largest neighbour count, a digit in between, the digit
\* that is no neighbour count, and a character that is no digit
RuleChars == {"0", "3", "8", "9", "/"}

RuleStrings == UNION {[1 .. n -> RuleChars] : n \in 0 .. MaxRuleLen}

RuleInit ==
    /\ XClusters = 1 /\ ZClusters = 1
    /\ XCellsPerCluster = 1 /\ ZCellsPerCluster = 1
    /\ Divisions = 1
    /\ BirthString \in RuleStrings
    /\ SurviveString \in RuleStrings
    /\ Unstarted
    /\ gt = "InitializeCellRules"

RuleNext == InitializeCellRules

RuleSpec == RuleInit /\ [][RuleNext]_vars

-----------------------------------------------------------------------------
(* The driver constructed on a grid without cells: some of XClusters,        *)
(* ZClusters, XCellsPerCluster and ZCellsPerCluster is 0.  (Divisions <= 0 is *)
(* left out: int(ceilf(x / 0.0f)) has no defined value.)                     *)

MaxConfigDim == 1

ConfigInit ==
    /\ XClusters \in 0 .. MaxConfigDim
    /\ ZClusters \in 0 .. MaxConfigDim
    /\ XCellsPerCluster \in 0 .. MaxConfigDim
    /\ ZCellsPerCluster \in 0 .. MaxConfigDim
    /\ NumCells = 0
    /\ Divisions \in 1 .. MaxDivisions
    /\ \E pair \in RulePairs : BirthString = pair[1] /\ SurviveString = pair[2]
    /\ Unstarted
    /\ gt = "InitializeCellRules"

ConfigSpec == ConfigInit /\ [][Next]_vars

-----------------------------------------------------------------------------
(* Phases of a generation, in terms of the state above *)

\* the game thread is inside TimestepPropertyShift
Committing == gt = "TimestepPropertyShift"

\* every processor's ProcessCompleted has run in the current cascade, and the
\* cascade has not been committed yet
CascadeEnded == Completed = ProcessorIDs /\ gt # "StartBackgroundTask"

\* processor p is submitted or inside CellProcessorWork
Pending(p) == taskPC[p] \in {"Queued", "DoWork"}

-----------------------------------------------------------------------------
(* Claims *)

\* C1: after every commit the grid CurrentStates, computed with the skip test
\* (a cell is evaluated only if NeighborhoodChangedLastStep or ChangedLastStep is
\* set for it), equals the grid computed by evaluating every cell in every
\* generation from the same initial grid and rules.
C1_SkipEquivalence == CurrentStates = RefStates

\* C1 witness: a commit of the third generation or later has happened whose cascade
\* skipped some cell, evaluated another and changed a cell's state.
C1_Witness ==
    /\ gt = "Timer"
    /\ Generation >= 3
    /\ EvaluatedBefore # Cells
    /\ EvaluatedBefore # {}
    /\ Flipped # {}

\* C2: at most one processor is inside its cell work at any time, and while
\* processor p is inside its cell work every processor before it has finished its
\* own cell work of this cascade and run ProcessCompleted.
C2_CascadeSequential ==
    \A p \in DOMAIN taskPC :
        taskPC[p] = "DoWork" =>
            /\ \A q \in DOMAIN taskPC : q # p => taskPC[q] # "DoWork"
            /\ \A q \in 0 .. (p - 1) :
                  q \in Completed /\ taskPC[q] \in {"Finish", "Idle"}

\* C2 witness: the third processor is inside its cell work in a background cascade
\* while the second has run ProcessCompleted but not yet signalled its DoneEvent.
C2_Witness ==
    /\ Divisions >= 3
    /\ Generation >= 1
    /\ taskPC[2] = "DoWork"
    /\ taskPC[1] = "Finish"

\* C3: whenever the game thread is inside TimestepPropertyShift, every processor
\* has been submitted once, in order, in the cascade being committed, has run
\* ProcessCompleted and is idle again; this includes the first commit.
C3_CommitAfterLastPartition ==
    Committing =>
        /\ Completed = ProcessorIDs
        /\ Submitted = [k \in 1 .. Divisions |-> k - 1]
        /\ \A p \in ProcessorIDs : taskPC[p] = "Idle" /\ WorkNotFinishedCounter[p] = 0

\* C3 witness: the first commit (the one BeginPlay issues) with three processors.
C3_Witness == Committing /\ Generation = 0 /\ Divisions = 3

\* C4: the game thread is never inside TimestepPropertyShift while a processor is
\* submitted or inside its cell work.
C4_CommitExclusive == ~(Committing /\ \E p \in ProcessorIDs : Pending(p))

\* C4 witness: a commit of a cascade that ran in the background, with two or more
\* processors, on a grid some of whose cells change in that commit.
C4_Witness ==
    /\ Committing
    /\ Generation >= 1
    /\ Divisions >= 2
    /\ \E c \in Cells : NextStates[c] # CurrentStates[c]

\* C5 (as claimed): when RunProcessesOnce returns, every processor has completed
\* its work, for every number of divisions.
C5_InitialCascadeBlocking ==
    gt = "BeginPlay" =>
        /\ Completed = ProcessorIDs
        /\ \A p \in ProcessorIDs : taskPC[p] = "Idle"

\* C6: when a cascade has ended, every neighbour of every cell whose NextStates
\* differs from its CurrentStates has NeighborhoodChangedThisStep set; and every
\* neighbour of every cell whose state the last commit changed has been evaluated
\* (not skipped) in the cascade that followed.
C6_ChangePropagation ==
    CascadeEnded =>
        /\ \A c \in Cells :
              NextStates[c] # CurrentStates[c] =>
                  \A k \in DOMAIN NeighborsOf[c] :
                      NeighborhoodChangedThisStep[NeighborsOf[c][k]]
        /\ \A c \in Flipped :
              \A k \in DOMAIN Neighborhoods[c] : Neighborhoods[c][k] \in Evaluated

\* C6 witness: a cascade after the second commit has ended in which some cell was
\* skipped, a cell flips, and a cell had flipped in the commit before; the flipping
\* cell and one of its neighbours belong to different processors.
C6_Witness ==
    /\ CascadeEnded
    /\ Generation >= 2
    /\ Evaluated # Cells
    /\ Flipped # {}
    /\ \E c \in Cells :
          /\ NextStates[c] # CurrentStates[c]
          /\ \E k \in DOMAIN NeighborsOf[c] : \E p \in ProcessorIDs :
                /\ c \in SeqToSet(CellIDs[p])
                /\ NeighborsOf[c][k] \notin SeqToSet(CellIDs[p])

\* C7 (as claimed): if the initial grid is a fixed point of the rules, then after
\* the first commit CurrentStates is the initial grid, ChangedThisStep is false for
\* every cell, and the second cascade evaluates no cell.
C7_FixedPointSkipped ==
    (/\ Generation = 1
     /\ gt # "StartBackgroundTask"
     /\ FullGeneration(InitialStates) = InitialStates) =>
        /\ CurrentStates = InitialStates
        /\ ChangedThisStep = AllCells(FALSE)
        /\ Evaluated = {}

\* C8: under fair scheduling, once processor 0 of a cascade has been submitted,
\* eventually every processor has completed, is idle, and CurrentProcess is back
\* at 0; and the wait at the start of StepComplete eventually ends, the game thread
\* entering TimestepPropertyShift.
C8_CascadeTerminates ==
    /\ (Submitted # << >>) ~>
          (/\ Completed = ProcessorIDs
           /\ CurrentProcess = 0
           /\ \A p \in ProcessorIDs : taskPC[p] = "Idle")
    /\ (gt = "StepComplete") ~> Committing

\* C8 witness: the game thread is blocked in StepComplete's wait on a processor of
\* a three-processor cascade that is inside its cell work.
C8_Witness ==
    /\ gt = "StepComplete"
    /\ Divisions = 3
    /\ Process < Divisions
    /\ ~CanEnsureCompletion(Process)
    /\ taskPC[Process] = "DoWork"

-----------------------------------------------------------------------------
(* Claims about the topology, checked under TopoSpec *)

\* number of places of sequence s that hold e
Occurrences(s, e) == Cardinality({k \in DOMAIN s : s[k] = e})

RECURSIVE AllProcessorCells(_)
\* the cell lists of processors p, p+1, ..., one after the other
AllProcessorCells(p) ==
    IF p < Divisions THEN CellIDs[p] \o AllProcessorCells(p + 1) ELSE << >>

\* C9: once the processors are built, every cell ID of the grid occurs exactly once
\* in the cell lists of all clusters together and exactly once in the cell lists of
\* all processors together, and every ID a processor holds is a cell ID of the grid.
C9_ExactlyOneClusterAndProcessor ==
    gt = "RunProcessesOnce" =>
        LET InClusters == AppendClusters(0, NumClusters)
            InProcessors == AllProcessorCells(0)
        IN  /\ \A c \in Cells :
                  Occurrences(InClusters, c) = 1 /\ Occurrences(InProcessors, c) = 1
            /\ \A k \in DOMAIN InProcessors : InProcessors[k] \in Cells

\* C9 witness: processors built with more divisions than clusters, the divisions
\* not dividing the number of clusters, and clusters of several cells.
C9_Witness ==
    /\ gt = "RunProcessesOnce"
    /\ Divisions > NumClusters
    /\ NumClusters > 1
    /\ NumClusters % Divisions # 0
    /\ XCellsPerCluster > 1
    /\ ZCellsPerCluster > 1

\* the ID of the cell at column x + dx, row z + dz of the torus
TorusID(x, z, dx, dz) ==
    LET XCells == XClusters * XCellsPerCluster
        ZCells == ZClusters * ZCellsPerCluster
    IN  ((x + dx + XCells) % XCells) + XCells * ((z + dz + ZCells) % ZCells)

MooreOffsets == ({-1, 0, 1} \X {-1, 0, 1}) \ {<<0, 0>>}

\* C10: once the neighbourhoods are built, the list of every cell has 8 entries and
\* holds every cell ID as often as there are offsets (dx, dz) in {-1,0,1}^2 minus
\* (0,0) that lead to it on the torus; and the left neighbour in the middle row of a
\* cell in column 0 is the cell in the last column of the same row.
C10_ToroidalMooreNeighborhood ==
    gt # "InitializeCellNeighborhoods" =>
        \A c \in Cells :
            LET XCells == XClusters * XCellsPerCluster
                x == c % XCells
                z == c \div XCells
            IN  /\ Len(Neighborhoods[c]) = 8
                /\ \A d \in Cells :
                      Occurrences(Neighborhoods[c], d) =
                          Cardinality({o \in MooreOffsets :
                                          TorusID(x, z, o[1], o[2]) = d})
                /\ \A k \in DOMAIN Neighborhoods[c] : Neighborhoods[c][k] \in Cells
                /\ x = 0 => Neighborhoods[c][4] = (XCells - 1) + XCells * z

\* C10 witness: neighbourhoods built on a grid at least 3 cells wide and high, where
\* the 8 neighbours of a cell are 8 different cells and column 0 wraps to a column
\* other than the right neighbour's.
C10_Witness ==
    /\ gt # "InitializeCellNeighborhoods"
    /\ XClusters * XCellsPerCluster >= 3
    /\ ZClusters * ZCellsPerCluster >= 3
    /\ Cardinality(SeqToSet(Neighborhoods[0])) = 8

-----------------------------------------------------------------------------
(* Claims about the rule strings, checked under RuleSpec *)

\* the character that writes digit n
DigitName(n) == <<"0", "1", "2", "3", "4", "5", "6", "7", "8">>[n + 1]

\* the digits 0..8 that occur in String
DigitsIn(String) == {n \in 0 .. 8 : DigitName(n) \in SeqToSet(String)}

\* C11 (as claimed): a birth or survive string that contains the digit 9 is
\* rejected when it is parsed: InitializeCellRules produces no rule table from it.
C11_NineRejected ==
    gt # "InitializeCellRules" =>
        /\ "9" \in SeqToSet(BirthString) => BirthRules = << >>
        /\ "9" \in SeqToSet(SurviveString) => SurviveRules = << >>

\* C12 (as claimed): a driver constructed with Divisions <= 0 or with a grid
\* dimension of 0 builds no processors and starts no cascade.
C12_InvalidConfigurationFatal ==
    (\/ Divisions <= 0
     \/ XClusters = 0 \/ ZClusters = 0
     \/ XCellsPerCluster = 0 \/ ZCellsPerCluster = 0) =>
        /\ DOMAIN CellIDs = {}
        /\ Submitted = << >>

\* C13: for a rule string of digits 0-8 and non-digits, the table made from it has
\* 10 entries and entry n is true exactly when digit n occurs in the string; so
\* non-digits change nothing, and two strings with the same digits, in any order
\* and however often repeated, make the same table.
C13_RuleTableOfDigits ==
    gt # "InitializeCellRules" =>
        /\ "9" \notin SeqToSet(BirthString) =>
              /\ DOMAIN BirthRules = 0 .. 9
              /\ ~BirthRules[9]
              /\ \A n \in 0 .. 8 : BirthRules[n] <=> n \in DigitsIn(BirthString)
        /\ "9" \notin SeqToSet(SurviveString) =>
              /\ DOMAIN SurviveRules = 0 .. 9
              /\ ~SurviveRules[9]
              /\ \A n \in 0 .. 8 : SurviveRules[n] <=> n \in DigitsIn(SurviveString)
        /\ ("9" \notin SeqToSet(BirthString \o SurviveString)
              /\ DigitsIn(BirthString) = DigitsIn(SurviveString)) =>
              BirthRules = SurviveRules

\* C13 witness: parsed strings without 9 of which one holds a non-digit and two
\* digits, the other the same two digits in another order with one repeated.
C13_Witness ==
    /\ gt # "InitializeCellRules"
    /\ "9" \notin SeqToSet(BirthString \o SurviveString)
    /\ \E k \in DOMAIN BirthString : ~IsDigit(BirthString[k])
    /\ Cardinality(DigitsIn(BirthString)) = 2
    /\ DigitsIn(SurviveString) = DigitsIn(BirthString)
    /\ Len(SurviveString) > Cardinality(DigitsIn(SurviveString))
    /\ \A k \in DOMAIN SurviveString : IsDigit(SurviveString[k])
    /\ \E j, k \in DOMAIN BirthString : \E m, n \in DOMAIN SurviveString :
          /\ j < k /\ m < n
          /\ BirthString[j] # BirthString[k]
          /\ SurviveString[m] = BirthString[k]
          /\ SurviveString[n] = BirthString[j]

-----------------------------------------------------------------------------
(* Claims about the generations, checked under Spec *)

\* C14 (as claimed): when a cascade has ended, the output update of
\* SetCellNextCustomData has run exactly once for every cell of the grid, reading
\* the state the rules give the cell in this generation.
C14_HookOncePerCell ==
    CascadeEnded =>
        \A c \in Cells :
            /\ HookCount[c] = 1
            /\ HookNewState[c] = RuleResult(CurrentStates[c], GetCellAliveNeighbors(c))

\* C14 (amended): the output update never runs twice for a cell in one cascade;
\* when a cascade has ended it has run exactly once for every cell the skip test
\* lets through and not at all for a skipped cell, and where it ran it read the
\* NextStates entry that ApplyCellRules computed from the rules in this cascade.
C14_HookOncePerEvaluatedCell ==
    /\ \A c \in DOMAIN HookCount : HookCount[c] <= 1
    /\ CascadeEnded =>
          \A c \in Cells :
              /\ HookCount[c] =
                    IF NeighborhoodChangedLastStep[c] \/ ChangedLastStep[c] THEN 1 ELSE 0
              /\ HookCount[c] = 1 =>
                    /\ HookNewState[c] = NextStates[c]
                    /\ NextStates[c] =
                          RuleResult(CurrentStates[c], GetCellAliveNeighbors(c))

\* C14 witness: a cascade of two or more processors has ended in which the update
\* ran for a cell that flips and did not run for another cell.
C14_Witness ==
    /\ CascadeEnded
    /\ Divisions >= 2
    /\ \E c \in Cells : HookCount[c] = 0
    /\ \E c \in Cells : HookCount[c] = 1 /\ HookNewState[c] # CurrentStates[c]

\* C15: a step of the game thread inside TimestepPropertyShift makes CurrentStates
\* the former NextStates, ChangedLastStep the former ChangedThisStep,
\* NeighborhoodChangedLastStep the former NeighborhoodChangedThisStep, clears both
\* this-step arrays, and leaves NextStates and the neighbour tables as they were.
C15_CommitEffect ==
    [][Committing =>
          /\ CurrentStates' = NextStates
          /\ ChangedLastStep' = ChangedThisStep
          /\ NeighborhoodChangedLastStep' = NeighborhoodChangedThisStep
          /\ \A c \in Cells :
                ~ChangedThisStep'[c] /\ ~NeighborhoodChangedThisStep'[c]
          /\ NextStates' = NextStates
          /\ Neighborhoods' = Neighborhoods
          /\ NeighborsOf' = NeighborsOf]_vars

\* C15 witness: a commit after the second generation has just ended that changed a
\* cell, and left cells with and without either last-step flag.
C15_Witness ==
    /\ gt = "StartBackgroundTask"
    /\ Generation >= 2
    /\ Flipped # {}
    /\ \E c \in Cells : ChangedLastStep[c]
    /\ \E c \in Cells : ~ChangedLastStep[c] /\ NeighborhoodChangedLastStep[c]
    /\ \E c \in Cells : ~ChangedLastStep[c] /\ ~NeighborhoodChangedLastStep[c]

\* C16: CurrentProcess stays within 0 .. Divisions-1; the processors submitted in a
\* cascade are 0, 1, 2, ... in this order, each once, and all of them by the time
\* of the commit; the completion that wraps CurrentProcess to 0 submits nothing,
\* and after it nothing is submitted before StepComplete starts the next cascade.
C16_CascadeSubmission ==
    /\ [](DOMAIN taskPC # {} =>
            /\ CurrentProcess \in ProcessorIDs
            /\ Len(Submitted) <= Divisions
            /\ \A k \in DOMAIN Submitted : Submitted[k] = k - 1)
    /\ [](Committing => Len(Submitted) = Divisions)
    /\ [][/\ (Completed' = ProcessorIDs /\ Completed # ProcessorIDs) =>
                (Submitted' = Submitted /\ CurrentProcess' = 0)
          /\ (Completed = ProcessorIDs /\ Submitted' # Submitted) =>
                gt = "StartBackgroundTask"]_vars

\* C16 witness: a background cascade of three processors has wrapped and waits for
\* the timer.
C16_Witness ==
    /\ Divisions = 3
    /\ Generation >= 1
    /\ gt = "Timer"
    /\ Completed = ProcessorIDs
    /\ Submitted = <<0, 1, 2>>
    /\ CurrentProcess = 0

\* the least k with k * d >= n
CeilDiv(n, d) == CHOOSE k \in 0 .. n : k * d >= n /\ (k = 0 \/ (k - 1) * d < n)

\* C17 (as claimed): once the processors are built, each holds the cells of a
\* contiguous range of whole clusters; every processor but the last holds
\* ceil(NumClusters / Divisions) clusters and the last holds at most as many.
C17_EvenContiguousPartitions ==
    gt = "RunProcessesOnce" =>
        \A i \in ProcessorIDs :
            \E First \in 0 .. NumClusters : \E Count \in 0 .. (NumClusters - First) :
                /\ CellIDs[i] = AppendClusters(First, First + Count)
                /\ i < Divisions - 1 => Count = CeilDiv(NumClusters, Divisions)
                /\ Count <= CeilDiv(NumClusters, Divisions)

\* C17 (amended): once the processors are built, their cell lists, one after the
\* other, are the cell lists of clusters 0, 1, ..., NumClusters-1 in this order;
\* each processor holds a contiguous range of at most ceil(NumClusters / Divisions)
\* whole clusters, and every processor after one that holds fewer is empty.
C17_ContiguousFullThenEmpty ==
    gt = "RunProcessesOnce" =>
        /\ AllProcessorCells(0) = AppendClusters(0, NumClusters)
        /\ \A i \in ProcessorIDs :
              \E First \in 0 .. NumClusters : \E Count \in 0 .. (NumClusters - First) :
                  /\ CellIDs[i] = AppendClusters(First, First + Count)
                  /\ Count <= CeilDiv(NumClusters, Divisions)
                  /\ Count < CeilDiv(NumClusters, Divisions) =>
                        \A j \in ProcessorIDs : j > i => CellIDs[j] = << >>

\* C17 witness: processors built on several clusters of several cells, where a
\* processor before the last one is empty.
C17_Witness ==
    /\ gt = "RunProcessesOnce"
    /\ Divisions >= 3
    /\ NumClusters > 1
    /\ CellsPerCluster > 1
    /\ CellIDs[0] # << >>
    /\ CellIDs[Divisions - 2] = << >>

\* C18 (as claimed): right after every commit, the first included, ChangedLastStep
\* is true for exactly the cells whose CurrentStates that commit changed.
C18_ChangedLastStepIsFlipped ==
    gt = "StartBackgroundTask" =>
        \A c \in Cells : ChangedLastStep[c] <=> c \in Flipped

\* C19: whenever the iterations of a processor's ParallelFor have all returned, in
\* whatever order and interleaving they ran, NextStates, ChangedThisStep and
\* NeighborhoodChangedThisStep are the arrays that running the iterations one
\* after the other in list order makes of the arrays the loop started from.
C19_LoopOrderIndependent ==
    \A p \in DOMAIN taskPC :
        (/\ taskPC[p] = "DoWork"
         /\ \A c \in SeqToSet(CellIDs[p]) : LoopDone(c)) =>
            WrittenArrays = ApplyCellRules(AtLoopStart, CellIDs[p])

\* C19 witness: two cells of one processor that are neighbours of each other have
\* both flipped and are both in the middle of marking their neighbours, at
\* different places of their lists.
C19_Witness ==
    \E p \in DOMAIN taskPC : \E c, d \in SeqToSet(CellIDs[p]) :
        /\ taskPC[p] = "DoWork"
        /\ c # d
        /\ d \in SeqToSet(NeighborsOf[c])
        /\ c \in SeqToSet(NeighborsOf[d])
        /\ loopPC[c] \in 2 .. Len(NeighborsOf[c])
        /\ loopPC[d] \in 2 .. Len(NeighborsOf[d])
        /\ loopPC[c] # loopPC[d]
        /\ Generation >= 1

\* C20: right after every commit NextStates equals CurrentStates for every cell;
\* and when a cascade has ended, every cell it skipped has NextStates equal to
\* CurrentStates.
C20_SkippedKeepNextState ==
    /\ gt = "StartBackgroundTask" => NextStates = CurrentStates
    /\ CascadeEnded =>
          \A c \in Cells :
              ~(NeighborhoodChangedLastStep[c] \/ ChangedLastStep[c]) =>
                  (c \notin Evaluated /\ NextStates[c] = CurrentStates[c])

\* C20 witness: a cascade has ended that skipped a live cell and flipped another.
C20_Witness ==
    /\ CascadeEnded
    /\ \E c \in Cells \ Evaluated : CurrentStates[c] /\ NextStates[c]
    /\ \E c \in Evaluated : NextStates[c] # CurrentStates[c]

\* C21: a step in which a processor passes through its cell work changes none of
\* CurrentStates, ChangedLastStep, NeighborhoodChangedLastStep, Neighborhoods and
\* NeighborsOf; and from the start of a cascade to its commit NextStates of every
\* cell evaluated so far is what the rules give on the grid of the last commit,
\* whichever processors have run.
C21_WorkReadsCommittedGrid ==
    /\ [][(\E p \in DOMAIN taskPC :
              taskPC[p] = "DoWork" /\ taskPC'[p] = "ProcessCompleted") =>
            /\ CurrentStates' = CurrentStates
            /\ ChangedLastStep' = ChangedLastStep
            /\ NeighborhoodChangedLastStep' = NeighborhoodChangedLastStep
            /\ Neighborhoods' = Neighborhoods
            /\ NeighborsOf' = NeighborsOf]_vars
    /\ [](gt # "StartBackgroundTask" =>
            \A c \in Evaluated : NextStates[c] = FullGeneration(RefStates)[c])

\* C21 witness: a background cascade has ended in which a cell of a later
\* processor was evaluated after a neighbour of it, held by an earlier processor,
\* had got a NextStates that differs from its CurrentStates.
C21_Witness ==
    /\ CascadeEnded
    /\ Generation >= 1
    /\ \E p, q \in ProcessorIDs :
          /\ p < q
          /\ \E c \in SeqToSet(CellIDs[q]) : \E n \in SeqToSet(CellIDs[p]) :
                /\ c \in Evaluated
                /\ n \in SeqToSet(Neighborhoods[c])
                /\ NextStates[n] # CurrentStates[n]

\* C22: once NeighborsOf is set, every cell d occurs in the neighbour list of
\* every cell c as often as c occurs in the list of d, and the entries of
\* NeighborsOf[c] are exactly the cells that have c in their Neighborhoods list.
C22_NeighborSymmetry ==
    gt \notin {"InitializeCellNeighborhoods", "InitializeCellNeighborsOf"} =>
        \A c \in Cells :
            /\ \A d \in Cells :
                  Occurrences(Neighborhoods[c], d) = Occurrences(Neighborhoods[d], c)
            /\ SeqToSet(NeighborsOf[c]) =
                  {d \in Cells : c \in SeqToSet(Neighborhoods[d])}

\* C22 witness: NeighborsOf set on a grid 2 cells wide and 3 or more high, where a
\* cell has another cell twice and a third cell once in its list.
C22_Witness ==
    /\ gt \notin {"InitializeCellNeighborhoods", "InitializeCellNeighborsOf"}
    /\ XClusters * XCellsPerCluster = 2
    /\ ZClusters * ZCellsPerCluster >= 3
    /\ \E c, d, e \in Cells :
          /\ Occurrences(Neighborhoods[c], d) = 2
          /\ Occurrences(Neighborhoods[c], e) = 1

=============================================================================
